---- MODULE Spec2Model ----
(***************************************************************************)
(* Engine Deals AI: the scheduler / control loop (scheduler/job_scheduler), *)
(* the persistence gateway (data/database), the adapter orchestrator        *)
(* (scraper_manager) and the scorer's load-on-demand (ml/model_training).   *)
(***************************************************************************)
EXTENDS Integers, Sequences, FiniteSets, TLC

\* ------------------------------------------------------------------ bounds
NumCallers == 2    \* threads of the application that call the scheduler's API
MaxLoops   == 2    \* background loop threads ever created
MaxCycles  == 2    \* scrape-and-score cycles ever begun
MaxDue     == 2    \* times a registered job becomes due
MaxBatch   == 2    \* listings returned by one scrape_all_platforms call
MaxInserts == 4    \* insert_listing calls of the persistence-only specification
MaxAdapterLen == 1 \* listings one adapter returns in the orchestrator specification
MaxFits == 3         \* fits told apart in a run of scorer calls
MaxItems == 2        \* elements on the result pages of one scrape_listings call
MaxPages == 2        \* result pages requested for one search term
MaxTerms == 2        \* search terms of one scrape_listings call
MaxClock == 2        \* hours the wall clock can advance
MaxLabelRows == 3    \* rows of a frame that gets synthetic labels

\* ------------------------------------------------------- program constants
HOT_DEAL_THRESHOLD == 8   \* config.py: 0.8, in tenths
NO_ID   == 0              \* cursor.lastrowid of a fresh connection whose INSERT was ignored
NULL    == 0 - 1          \* SQL NULL in deal_score
NoThread == 0             \* scheduler_thread = None
NoModel == 0              \* DealScoreModel.model / scaler / feature_columns = None
NoFile == 0 - 1           \* an artifact path at which no file exists
RequestFails == 0 - 1     \* a result page whose request raises
MIN_TRAIN_ROWS == 10      \* train_model: if len(X) < 10
SyntheticFit == 1         \* what fitting the seeded synthetic training set yields
RETRAIN_MIN_ROWS == 50    \* _run_model_retraining: if len(training_df) < 50: skip

Urls     == {"u1", "u2"}
Titles   == {"LS engine", "LQ4 engine"}
Channels == {"discord", "email"}
Scores   == {7, 8}        \* deal scores, in tenths: below / at the threshold
RawScores == {0 - 2, 8, 12}  \* what the regressor's predict can return, in tenths
Kinds    == <<"scrape", "summary", "retrain">>

Callers   == {<<"caller", i>> : i \in 1..NumCallers}
Loops     == {<<"loop", i>> : i \in 1..MaxLoops}
Executors == Callers \cup Loops
JobIds    == 1..(3 * (MaxLoops + 1))

VARIABLES
  running,           \* JobScheduler.running
  scheduler_thread,  \* JobScheduler.scheduler_thread: NoThread or the index of a loop thread
  jobs,              \* schedule.jobs of the module-level default scheduler: set of job ids
  jobDue,            \* the jobs whose next_run has passed (job.should_run)
  nreg,              \* registrations done so far (each registers three jobs)
  cpc,               \* position of each caller thread in the API method it is in
  lpc,               \* position of each loop thread in _scheduler_loop
  todo,              \* per loop thread: run_pending's sorted list of runnable jobs, head in progress next
  cyc,               \* per executor: the local state of _run_scraping_job
  rows,              \* the listings table
  seq,               \* sqlite_sequence of the listings table
  dbLock,            \* the connection holding SQLite's write lock, or <<>>
  notifications,     \* the notifications table, in insertion order
  scorer,            \* DealScoreModel: model, scaler, feature_columns
  artifacts,         \* the three artifact files: model, scaler, info
  notifiers,         \* the configured channels (keys of JobScheduler.notifiers)
  stock,             \* priced listings stored by earlier runs of the program
  usable,            \* those of them that hold a deal_score
  call,              \* a call of a scorer or adapter method followed from arguments to result
  market,            \* the batches the marketplaces can currently yield to a scrape
  orch,              \* a scrape_all_platforms call followed adapter by adapter
  ncycles,           \* scrape cycles begun
  ndue,              \* due events so far
  hist               \* observations of the run, read by the properties only

vars == <<running, scheduler_thread, jobs, jobDue, nreg, cpc, lpc, todo, cyc, rows, seq,
          dbLock, notifications, scorer, artifacts, notifiers, stock, market, orch,
          usable, call, ncycles, ndue, hist>>

schedVars == <<running, scheduler_thread, jobs, jobDue, nreg, cpc, lpc, todo, ndue>>
dbVars    == <<rows, seq, dbLock, notifications>>
mlVars    == <<scorer, artifacts>>
otherVars == <<notifiers, stock, market, orch, usable, call>>

\* ------------------------------------------------------------- helpers
Free == <<>>

KindOf(j) == Kinds[((j - 1) % 3) + 1]

Listing(u, t) == [url |-> u, title |-> t]

Listings == {Listing(u, t) : u \in Urls, t \in Titles}

\* What the adapters hand to a scrape cycle: one title per url suffices there.
ScrapedListings == {Listing(u, "LS engine") : u \in Urls}

SeqsUpTo(S, n) == UNION {[1..k -> S] : k \in 0..n}

Batches == SeqsUpTo(ScrapedListings, MaxBatch)

RECURSIVE SelectIdx(_, _)
\* The indices i of 1..n with res[i] truthy, ascending, as a sequence.
SelectIdx(res, n) ==
  IF n = 0 THEN <<>>
  ELSE IF res[n] # NO_ID THEN Append(SelectIdx(res, n - 1), n)
       ELSE SelectIdx(res, n - 1)

\* ------------------------------------------------ persistence gateway
\* INSERT OR IGNORE INTO listings ...: url is UNIQUE, so the row is added only when
\* no stored row has the url; a new row has deal_score NULL and is_hot_deal FALSE.
UrlStored(rs, u) == \E r \in rs : r.url = u

NewRow(id, l, c) ==
  [id |-> id, url |-> l.url, title |-> l.title, deal_score |-> NULL,
   is_hot_deal |-> FALSE, cycle |-> c]

\* INSERT OR REPLACE: the stored row of the url gives way to a new one.
InsertOrReplace(rs, s, l, c) ==
  {r \in rs : r.url # l.url} \cup {NewRow(s + 1, l, c)}

InsertOrIgnore(rs, s, l, c) ==
  IF UrlStored(rs, l.url) THEN rs ELSE rs \cup {NewRow(s + 1, l, c)}

\* An insert_listing that answers a stored url with the id of the stored row.
LastRowIdOfStored(rs, s, l) ==
  IF UrlStored(rs, l.url) THEN (CHOOSE r \in rs : r.url = l.url).id ELSE s + 1

\* A lastrowid that names a row whether or not the statement inserted one.
LastRowIdAlways(rs, s, l) == s + 1

\* cursor.lastrowid after the statement, on a connection opened for this call.
LastRowId(rs, s, l) == IF UrlStored(rs, l.url) THEN NO_ID ELSE s + 1

\* UPDATE listings SET deal_score = ?, is_hot_deal = ? WHERE id = ?
UpdateDealScore(rs, id, score, hot) ==
  {IF r.id = id THEN [r EXCEPT !.deal_score = score, !.is_hot_deal = hot] ELSE r : r \in rs}

\* INSERT INTO notifications (listing_id, notification_type, success)
\* A log that keeps one record per listing, the latest.
LogNotificationUpsert(ns, id, ch, ok) ==
  LET Other(r) == r.listing_id # id
  IN Append(SelectSeq(ns, Other), [listing_id |-> id, notification_type |-> ch, success |-> ok])

LogNotification(ns, id, ch, ok) ==
  Append(ns, [listing_id |-> id, notification_type |-> ch, success |-> ok])

\* One insert_listing call from start to return, on its own connection.
InsertListingCall(l) ==
  /\ hist.inserts < MaxInserts
  /\ rows' = InsertOrIgnore(rows, seq, l, 0)
  /\ seq' = seq + 1
  /\ hist' = [hist EXCEPT !.inserts = @ + 1,
                          !.last = [listing |-> l, ret |-> LastRowId(rows, seq, l)]]
  /\ UNCHANGED <<schedVars, dbLock, notifications, mlVars, otherVars, cyc, ncycles>>

\* One update_deal_score call (main.run_tests, score_listings) on a stored row.
UpdateDealScoreCall(id, score) ==
  /\ \E r \in rows : r.id = id /\ r.deal_score # score
  /\ rows' = UpdateDealScore(rows, id, score, score >= HOT_DEAL_THRESHOLD)
  /\ UNCHANGED <<schedVars, seq, dbLock, notifications, mlVars, otherVars, cyc, ncycles, hist>>

\* ------------------------------------------------------------ deal scorer
Unset == [model |-> NoModel, scaler |-> NoModel, feature_columns |-> NoModel]

Files(m, s, i) == [model |-> m, scaler |-> s, info |-> i]

\* load_model without its except clause: the FileNotFoundError of joblib.load
\* leaves the call.
LoadModelUncaught(sc, art) ==
  IF art.model = NoFile THEN [scorer |-> sc, ok |-> FALSE, raised |-> TRUE]
  ELSE IF art.scaler = NoFile
       THEN [scorer |-> [sc EXCEPT !.model = art.model], ok |-> FALSE, raised |-> TRUE]
  ELSE IF art.info = NoFile
       THEN [scorer |-> [sc EXCEPT !.model = art.model, !.scaler = art.scaler],
             ok |-> FALSE, raised |-> TRUE]
  ELSE [scorer |-> [model |-> art.model, scaler |-> art.scaler,
                    feature_columns |-> art.info], ok |-> TRUE, raised |-> FALSE]

\* load_model: three joblib.load calls in order, each assigning its attribute before
\* the next; FileNotFoundError at any of them is caught and ends the call with False.
LoadModel(sc, art) ==
  IF art.model = NoFile THEN [scorer |-> sc, ok |-> FALSE, raised |-> FALSE]
  ELSE IF art.scaler = NoFile
       THEN [scorer |-> [sc EXCEPT !.model = art.model], ok |-> FALSE, raised |-> FALSE]
  ELSE IF art.info = NoFile
       THEN [scorer |-> [sc EXCEPT !.model = art.model, !.scaler = art.scaler],
             ok |-> FALSE, raised |-> FALSE]
  ELSE [scorer |-> [model |-> art.model, scaler |-> art.scaler,
                    feature_columns |-> art.info], ok |-> TRUE, raised |-> FALSE]

\* predict_deal_scores raises ValueError without a model or a scaler, and KeyError
\* when feature_columns is None.
CanPredict(sc) ==
  sc.model # NoModel /\ sc.scaler # NoModel /\ sc.feature_columns # NoModel

\* _create_synthetic_training_data without line 224: the columns recorded by
\* prepare_training_data stay.
SyntheticKeepsColumns(sc) == [scorer |-> sc, fit |-> SyntheticFit, text |-> FALSE]

\* _create_synthetic_training_data: the seeded 1000-row frame of numeric columns,
\* whose columns replace the recorded feature_columns (line 224).
SyntheticTrainingData(sc) ==
  [scorer |-> [sc EXCEPT !.feature_columns = SyntheticFit], fit |-> SyntheticFit, text |-> FALSE]

\* train_model on a frame with n usable rows, which keeps a text column among its
\* features iff text; v names what a fit on this frame yields. Line 43 records the
\* frame's columns, lines 52-54 fall back to the synthetic set, line 60 assigns a
\* new scaler, line 61 fits it (ValueError on a text column), line 65 assigns the
\* model.
TrainModel(sc, n, text, v) ==
  LET prepared == [sc EXCEPT !.feature_columns = v]
      d == IF n < MIN_TRAIN_ROWS THEN SyntheticTrainingData(prepared)
           ELSE [scorer |-> prepared, fit |-> v, text |-> text]
      scaled == [d.scorer EXCEPT !.scaler = d.fit]
  IN IF d.text THEN [scorer |-> scaled, raised |-> TRUE]
     ELSE [scorer |-> [scaled EXCEPT !.model = d.fit], raised |-> FALSE]

\* save_model with an info file that leaves the feature columns out.
SaveWithoutColumns(art, sc, p) ==
  [model  |-> IF p >= 1 THEN sc.model ELSE art.model,
   scaler |-> IF p >= 2 THEN sc.scaler ELSE art.scaler,
   info   |-> IF p >= 3 THEN NoModel ELSE art.info]

\* save_model dumps model, scaler, info in this order; p files written before an error.
SaveTo(art, sc, p) ==
  [model  |-> IF p >= 1 THEN sc.model ELSE art.model,
   scaler |-> IF p >= 2 THEN sc.scaler ELSE art.scaler,
   info   |-> IF p >= 3 THEN sc.feature_columns ELSE art.info]

\* ------------------------------------------------- scrape_all_platforms
\* self.scrapers, in the insertion order a dict iterates in.
Adapters == <<"craigslist", "ebay", "facebook", "offerup">>

IdleOrch == [pc |-> "idle", idx |-> 0, all_listings |-> <<>>, calls |-> <<>>, got |-> <<>>]

\* What scrape_listings of the adapter called name can return.
AdapterLists(name) ==
  SeqsUpTo({[platform |-> name, url |-> u] : u \in Urls}, MaxAdapterLen)

\* A loop without the try/except of lines 25-37: the adapter's exception leaves
\* scrape_all_platforms.
AdapterRaisedUncaught(o) == [o EXCEPT !.pc = "raised"]

\* except Exception: log, continue with the next adapter.
AdapterRaised(o) == [o EXCEPT !.idx = @ + 1]

\* all_listings.extend(listings)
AdapterReturned(o, ls) == [o EXCEPT !.idx = @ + 1, !.all_listings = @ \o ls]

\* all_listings = []; the for loop is entered.
ScrapeAllCall ==
  /\ orch.pc = "idle"
  /\ orch' = [IdleOrch EXCEPT !.pc = "loop", !.idx = 1]
  /\ UNCHANGED <<schedVars, dbVars, mlVars, notifiers, stock, market, usable, call, cyc,
                 ncycles, hist>>

\* One turn of the for loop: the adapter's scrape_listings returns a list or raises.
AdapterTurn ==
  /\ orch.pc = "loop"
  /\ orch.idx <= Len(Adapters)
  /\ LET name == Adapters[orch.idx]
         o    == [orch EXCEPT !.calls = Append(@, name)]
     IN \/ \E ls \in AdapterLists(name) :
             orch' = AdapterReturned([o EXCEPT !.got = Append(@, [raised |-> FALSE, listings |-> ls])], ls)
        \/ orch' = AdapterRaised([o EXCEPT !.got = Append(@, [raised |-> TRUE, listings |-> <<>>])])
  /\ UNCHANGED <<schedVars, dbVars, mlVars, notifiers, stock, market, usable, call, cyc,
                 ncycles, hist>>

\* return all_listings
ScrapeAllReturn ==
  /\ orch.pc = "loop"
  /\ orch.idx > Len(Adapters)
  /\ orch' = [orch EXCEPT !.pc = "returned"]
  /\ UNCHANGED <<schedVars, dbVars, mlVars, notifiers, stock, market, usable, call, cyc,
                 ncycles, hist>>

\* ------------------------------------------------------- scrape cycle state
IdleCyc ==
  [pc |-> "none", id |-> 0, batch |-> <<>>, i |-> 0, res |-> <<>>, lastrowid |-> NO_ID,
   new |-> <<>>, raw |-> <<>>, scores |-> <<>>, k |-> 0, hot |-> <<>>, outcome |-> "none",
   out |-> [ch \in Channels |-> "sent"]]

InStart(c) == c \in Callers /\ cpc[c] = "start_scrape"

\* Entering _run_scraping_job on executor e.
BeginCycle(e) ==
  /\ ncycles < MaxCycles
  /\ ncycles' = ncycles + 1
  /\ cyc' = [cyc EXCEPT ![e] = [IdleCyc EXCEPT !.pc = "scrape", !.id = ncycles + 1]]

\* Leaving the job: by return, or through the except clause that logs the error.
EndCycle(e, how) == cyc' = [cyc EXCEPT ![e].pc = "done", ![e].outcome = how]

NoteScrape(e) ==
  IF InStart(e) THEN [hist EXCEPT !.startTrace[e] = Append(@, "scrape")] ELSE hist


\* --------------------------------------------------- _run_scraping_job
\* scrape_all_platforms returns the merged batch (or, for a scraper_manager that is
\* not the repository's, raises); an empty batch ends the job with a warning.
CycleScrape(e) ==
  /\ cyc[e].pc = "scrape"
  /\ hist' = NoteScrape(e)
  /\ \/ \E b \in market :
          IF b = <<>> THEN EndCycle(e, "empty")
          ELSE cyc' = [cyc EXCEPT ![e].pc = "insert", ![e].batch = b, ![e].i = 1]
     \/ EndCycle(e, "error")
  /\ UNCHANGED <<schedVars, dbVars, mlVars, otherVars, ncycles>>

\* insert_listing, up to cursor.lastrowid: the INSERT takes SQLite's write lock.
InsertExecute(e) ==
  /\ cyc[e].pc = "insert"
  /\ dbLock = Free
  /\ LET l == cyc[e].batch[cyc[e].i] IN
       /\ rows' = InsertOrIgnore(rows, seq, l, cyc[e].id)
       /\ cyc' = [cyc EXCEPT ![e].pc = "commit",
                             ![e].lastrowid = LastRowId(rows, seq, l)]
  /\ seq' = seq + 1
  /\ dbLock' = e
  /\ UNCHANGED <<schedVars, notifications, mlVars, otherVars, ncycles, hist>>

\* The loop of lines 71-75 without its test of the id.
NewListingsUntested(new, l, id) == Append(new, [id |-> id, url |-> l.url])

\* if listing_id: listing['id'] = listing_id; new_listings.append(listing)
NewListings(new, l, id) ==
  IF id # NO_ID THEN Append(new, [id |-> id, url |-> l.url]) ELSE new

\* insert_listing from conn.commit() to its return, and the caller's test of the id.
InsertCommit(e) ==
  /\ cyc[e].pc = "commit"
  /\ dbLock' = Free
  /\ LET c   == cyc[e]
         new == NewListings(c.new, c.batch[c.i], c.lastrowid)
         nc  == [c EXCEPT !.res = Append(@, c.lastrowid), !.new = new, !.i = @ + 1]
     IN cyc' = [cyc EXCEPT ![e] =
                  IF c.i < Len(c.batch) THEN [nc EXCEPT !.pc = "insert"]
                  ELSE IF new # <<>> THEN [nc EXCEPT !.pc = "score"]
                  ELSE [nc EXCEPT !.pc = "done", !.outcome = "ok"]]
  /\ UNCHANGED <<schedVars, rows, seq, notifications, mlVars, otherVars, ncycles, hist>>

\* insert_listing raises something other than IntegrityError (the database is locked
\* past the busy timeout, the file cannot be opened): the job's except clause ends it.
InsertRaise(e) ==
  /\ cyc[e].pc = "insert"
  /\ EndCycle(e, "error")
  /\ UNCHANGED <<schedVars, dbVars, mlVars, otherVars, ncycles, hist>>

\* Lines 88-91 without the return: a failed load falls through to the scoring.
ScoreEntryFallsThrough(e) ==
  /\ cyc[e].pc = "score"
  /\ scorer' = IF scorer.model = NoModel THEN LoadModel(scorer, artifacts).scorer ELSE scorer
  /\ cyc' = [cyc EXCEPT ![e].pc = "predict"]
  /\ UNCHANGED <<schedVars, dbVars, artifacts, otherVars, ncycles, hist>>

\* _score_and_notify_listings, lines 88-91: load on demand, return when none.
ScoreEntry(e) ==
  /\ cyc[e].pc = "score"
  /\ IF scorer.model = NoModel
     THEN LET r == LoadModel(scorer, artifacts) IN
            /\ scorer' = r.scorer
            /\ IF r.ok THEN cyc' = [cyc EXCEPT ![e].pc = "predict"]
               ELSE EndCycle(e, "no-model")
     ELSE /\ scorer' = scorer
          /\ cyc' = [cyc EXCEPT ![e].pc = "predict"]
  /\ UNCHANGED <<schedVars, dbVars, artifacts, otherVars, ncycles, hist>>

\* A predict_deal_scores that returns what the regressor returned.
Unclipped(x) == x

\* np.clip(x, 0, 1) of one score, in tenths.
ClipScore(x) == IF x < 0 THEN 0 ELSE IF x > 10 THEN 10 ELSE x

\* predict_deal_scores, lines 110-114: the regressor returns one value per row of
\* the frame, np.clip maps each into [0, 1] in place.
PredictDealScores(raw) == [i \in 1..Len(raw) |-> ClipScore(raw[i])]

\* predict_deal_scores: one clipped score per new listing, or an exception.
Predict(e) ==
  /\ cyc[e].pc = "predict"
  /\ \/ /\ CanPredict(scorer)
        /\ \E raw \in [1..Len(cyc[e].new) -> RawScores] :
             cyc' = [cyc EXCEPT ![e].pc = "update", ![e].scores = PredictDealScores(raw),
                                ![e].k = 1, ![e].raw = raw]
     \/ EndCycle(e, "error")
  /\ UNCHANGED <<schedVars, dbVars, mlVars, otherVars, ncycles, hist>>

IsHotDeal(score) == score >= HOT_DEAL_THRESHOLD

\* One turn of the loop of lines 99-111.
UpdateScore(e) ==
  /\ cyc[e].pc = "update"
  /\ LET c   == cyc[e]
         l   == c.new[c.k]
         s   == c.scores[c.k]
         hot == IF IsHotDeal(s) THEN Append(c.hot, l) ELSE c.hot
     IN \/ /\ dbLock = Free
           /\ rows' = UpdateDealScore(rows, l.id, s, IsHotDeal(s))
           /\ hist' = [hist EXCEPT !.scored = @ \cup {<<c.id, l.id>>}]
           /\ cyc' = [cyc EXCEPT ![e] =
                        IF c.k < Len(c.new) THEN [c EXCEPT !.hot = hot, !.k = @ + 1]
                        ELSE IF hot # <<>> THEN [c EXCEPT !.hot = hot, !.k = 1, !.pc = "notify"]
                        ELSE [c EXCEPT !.pc = "done", !.outcome = "ok"]]
        \/ /\ EndCycle(e, "error")
           /\ UNCHANGED <<rows, hist>>
  /\ UNCHANGED <<schedVars, seq, dbLock, notifications, mlVars, otherVars, ncycles>>

SendOutcomes == {"sent", "failed", "send-raises", "log-raises"}

\* What one channel can do with an alert: send_hot_deal_alert returns True or
\* False and log_notification writes the record, or log_notification raises; or
\* the send itself raises. DiscordNotifier.send_hot_deal_alert catches every
\* Exception and returns False, so its send does not raise.
ChannelOutcomes(ch) ==
  IF ch = "discord" THEN SendOutcomes \ {"send-raises"} ELSE SendOutcomes

RECURSIVE NotifyDeal(_, _, _, _)
\* _send_hot_deal_notifications: for each configured channel of chans, in the order
\* discord, email: send, then log the outcome; an exception from either ends the
\* method for this deal (it is logged, the remaining channels are not tried).
NotifyDeal(ns, id, chans, out) ==
  IF chans = <<>> THEN ns
  ELSE LET ch == Head(chans) IN
       IF ch \notin notifiers THEN NotifyDeal(ns, id, Tail(chans), out)
       ELSE IF out[ch] \in {"send-raises", "log-raises"} THEN ns
       ELSE NotifyDeal(LogNotification(ns, id, ch, out[ch] = "sent"), id, Tail(chans), out)

\* One turn of the loop of lines 115-116.
Notify(e) ==
  /\ cyc[e].pc = "notify"
  /\ LET c == cyc[e]
         l == c.hot[c.k]
     IN /\ \E out \in [Channels -> SendOutcomes] :
             /\ \A ch \in Channels :
                  out[ch] \in IF ch \in notifiers THEN ChannelOutcomes(ch) ELSE {"sent"}
             /\ notifications' = NotifyDeal(notifications, l.id, <<"discord", "email">>, out)
             /\ notifications' # notifications => dbLock = Free
             /\ cyc' = [cyc EXCEPT ![e] =
                          IF c.k < Len(c.hot) THEN [c EXCEPT !.k = @ + 1, !.out = out]
                          ELSE [c EXCEPT !.pc = "done", !.outcome = "ok", !.out = out]]
        /\ hist' = IF notifiers # {} THEN [hist EXCEPT !.notified = @ \cup {<<c.id, l.id>>}]
                   ELSE hist
  /\ UNCHANGED <<schedVars, rows, seq, dbLock, mlVars, otherVars, ncycles>>

CycleStep(e) ==
  \/ CycleScrape(e)
  \/ InsertExecute(e)
  \/ InsertCommit(e)
  \/ InsertRaise(e)
  \/ ScoreEntry(e)
  \/ Predict(e)
  \/ UpdateScore(e)
  \/ Notify(e)


\* ------------------------------------------------------- start / stop / manual
RegisteredBy(r) == {3 * r + 1, 3 * r + 2, 3 * r + 3}

\* def start_scheduler(self): the call is entered.
StartEnter(c) ==
  /\ cpc[c] = "idle"
  /\ cpc' = [cpc EXCEPT ![c] = "start"]
  /\ hist' = [hist EXCEPT !.stopped = FALSE]
  /\ UNCHANGED <<running, scheduler_thread, jobs, jobDue, nreg, lpc, todo, ndue, cyc,
                 dbVars, mlVars, otherVars, ncycles>>

\* A start_scheduler without the early return: it registers the jobs once more.
StartRegistersAgain(c) ==
  /\ cpc[c] = "start"
  /\ running
  /\ nreg < MaxLoops
  /\ jobs' = jobs \cup RegisteredBy(nreg)
  /\ nreg' = nreg + 1
  /\ cpc' = [cpc EXCEPT ![c] = "idle"]
  /\ UNCHANGED <<running, scheduler_thread, jobDue, lpc, todo, ndue, cyc,
                 dbVars, mlVars, otherVars, ncycles, hist>>

\* Lines 20-22: already running, warn and return.
StartAlreadyRunning(c) ==
  /\ cpc[c] = "start"
  /\ running
  /\ cpc' = [cpc EXCEPT ![c] = "idle"]
  /\ UNCHANGED <<running, scheduler_thread, jobs, jobDue, nreg, lpc, todo, ndue, cyc,
                 dbVars, mlVars, otherVars, ncycles, hist>>

\* A start_scheduler that leaves the first cycle to the loop (line 30 missing).
StartRegisterNoScrape(c) ==
  /\ cpc[c] = "start"
  /\ ~running
  /\ nreg < MaxLoops
  /\ jobs' = jobs \cup RegisteredBy(nreg)
  /\ nreg' = nreg + 1
  /\ cyc' = [cyc EXCEPT ![c].pc = "done"]
  /\ cpc' = [cpc EXCEPT ![c] = "start_scrape"]
  /\ hist' = [hist EXCEPT !.startTrace[c] = <<"register">>]
  /\ UNCHANGED <<running, scheduler_thread, jobDue, lpc, todo, ndue,
                 dbVars, mlVars, otherVars, ncycles>>

\* Lines 26-30: register the three jobs, then call _run_scraping_job in this thread.
StartRegister(c) ==
  /\ cpc[c] = "start"
  /\ ~running
  /\ nreg < MaxLoops
  /\ jobs' = jobs \cup RegisteredBy(nreg)
  /\ nreg' = nreg + 1
  /\ BeginCycle(c)
  /\ cpc' = [cpc EXCEPT ![c] = "start_scrape"]
  /\ hist' = [hist EXCEPT !.startTrace[c] = <<"register">>]
  /\ UNCHANGED <<running, scheduler_thread, jobDue, lpc, todo, ndue,
                 dbVars, mlVars, otherVars>>

NewThread == CHOOSE t \in Loops : lpc[t] = "unborn" /\ \A u \in Loops : lpc[u] = "unborn" => t[2] <= u[2]

\* Lines 32-34: the cycle has returned; set running, create and start the loop thread.
StartFinish(c) ==
  /\ cpc[c] = "start_scrape"
  /\ cyc[c].pc = "done"
  /\ \E t \in Loops : lpc[t] = "unborn"
  /\ running' = TRUE
  /\ scheduler_thread' = NewThread[2]
  /\ lpc' = [lpc EXCEPT ![NewThread] = "check"]
  /\ cpc' = [cpc EXCEPT ![c] = "idle"]
  /\ cyc' = [cyc EXCEPT ![c] = IdleCyc]
  /\ hist' = [hist EXCEPT !.startTrace[c] = <<>>]
  /\ UNCHANGED <<jobs, jobDue, nreg, todo, ndue, dbVars, mlVars, otherVars, ncycles>>

\* stop_scheduler, line 41.
StopCall(c) ==
  /\ cpc[c] = "idle"
  /\ running' = FALSE
  /\ cpc' = [cpc EXCEPT ![c] = "stop_join"]
  /\ UNCHANGED <<scheduler_thread, jobs, jobDue, nreg, lpc, todo, ndue, cyc,
                 dbVars, mlVars, otherVars, ncycles, hist>>

\* Lines 42-45: join(timeout=5) is over, schedule.clear(), return. The join ends
\* when the thread has ended or when 5 s have passed with the thread asleep
\* (sleep(60)) or inside a job function; 5 s are ample for a thread that is between
\* its while test and the start of a job to get there.
StopReturn(c) ==
  /\ cpc[c] = "stop_join"
  /\ \A t \in Loops : lpc[t] \notin {"pending", "run"}
  /\ jobs' = {}
  /\ jobDue' = {}
  /\ cpc' = [cpc EXCEPT ![c] = "idle"]
  /\ hist' = [hist EXCEPT !.stopped = \A d \in Callers : cpc[d] \notin {"start", "start_scrape"}]
  /\ UNCHANGED <<running, scheduler_thread, nreg, lpc, todo, ndue, cyc,
                 dbVars, mlVars, otherVars, ncycles>>

\* run_manual_scraping
ManualCall(c) ==
  /\ cpc[c] = "idle"
  /\ BeginCycle(c)
  /\ cpc' = [cpc EXCEPT ![c] = "manual"]
  /\ UNCHANGED <<running, scheduler_thread, jobs, jobDue, nreg, lpc, todo, ndue,
                 dbVars, mlVars, otherVars, hist>>

ManualReturn(c) ==
  /\ cpc[c] = "manual"
  /\ cyc[c].pc = "done"
  /\ cpc' = [cpc EXCEPT ![c] = "idle"]
  /\ cyc' = [cyc EXCEPT ![c] = IdleCyc]
  /\ UNCHANGED <<running, scheduler_thread, jobs, jobDue, nreg, lpc, todo, ndue,
                 dbVars, mlVars, otherVars, ncycles, hist>>


\* ------------------------------------------------------------ _scheduler_loop
\* Time passes: the next_run of a registered job is reached.
DueTick(j) ==
  /\ j \in jobs \ jobDue
  /\ ndue < MaxDue
  /\ jobDue' = jobDue \cup {j}
  /\ ndue' = ndue + 1
  /\ UNCHANGED <<running, scheduler_thread, jobs, nreg, cpc, lpc, todo, cyc,
                 dbVars, mlVars, otherVars, ncycles, hist>>

\* while self.running: evaluated when the thread starts and after each sleep(60).
LoopCheck(t) ==
  /\ lpc[t] = "check"
  /\ lpc' = [lpc EXCEPT ![t] = IF running THEN "pending" ELSE "dead"]
  /\ UNCHANGED <<running, scheduler_thread, jobs, jobDue, nreg, cpc, todo, ndue, cyc,
                 dbVars, mlVars, otherVars, ncycles, hist>>

Orderings(S) == {q \in [1..Cardinality(S) -> S] : \A a, b \in DOMAIN q : a # b => q[a] # q[b]}

\* schedule.run_pending(): sorted(job for job in self.jobs if job.should_run) is
\* built in full before the first of them runs.
LoopRunPending(t) ==
  /\ lpc[t] = "pending"
  /\ \E q \in Orderings(jobs \cap jobDue) :
       /\ todo' = [todo EXCEPT ![t] = q]
       /\ lpc' = [lpc EXCEPT ![t] = IF q = <<>> THEN "check" ELSE "run"]
  /\ UNCHANGED <<running, scheduler_thread, jobs, jobDue, nreg, cpc, ndue, cyc,
                 dbVars, mlVars, otherVars, ncycles, hist>>

\* _run_job(job) for the next job of the list: job.run() calls the job function.
LoopStartJob(t) ==
  /\ lpc[t] = "run"
  /\ LET kind == KindOf(Head(todo[t])) IN
       /\ lpc' = [lpc EXCEPT ![t] = kind]
       /\ IF kind = "scrape" THEN BeginCycle(t) ELSE UNCHANGED <<cyc, ncycles>>
  /\ UNCHANGED <<running, scheduler_thread, jobs, jobDue, nreg, cpc, todo, ndue,
                 dbVars, mlVars, otherVars, hist>>

\* A job function without its try/except, under a loop without one either: the
\* exception ends the thread.
LoopDiesOnRaise(rest, raised) ==
  IF raised THEN "dead" ELSE IF rest = <<>> THEN "check" ELSE "run"

\* Where the loop thread goes when a job function is over. Every job function
\* catches Exception itself, so a job that raised inside returns like any other.
LoopAfterJob(rest, raised) == IF rest = <<>> THEN "check" ELSE "run"

\* job.run() after the job function: last_run, _schedule_next_run; then the next
\* runnable job of the list, or time.sleep(60).
JobOver(t, raised) ==
  /\ jobDue' = jobDue \ {Head(todo[t])}
  /\ todo' = [todo EXCEPT ![t] = Tail(@)]
  /\ lpc' = [lpc EXCEPT ![t] = LoopAfterJob(Tail(todo[t]), raised)]
  /\ hist' = IF raised THEN [hist EXCEPT !.failed = @ \cup {t}] ELSE hist

LoopScrapeDone(t) ==
  /\ lpc[t] = "scrape"
  /\ cyc[t].pc = "done"
  /\ JobOver(t, cyc[t].outcome = "error")
  /\ cyc' = [cyc EXCEPT ![t] = IdleCyc]
  /\ UNCHANGED <<running, scheduler_thread, jobs, nreg, cpc, ndue,
                 dbVars, mlVars, otherVars, ncycles>>

\* _run_daily_summary: reads the two queries and sends the summary on each channel;
\* it changes no state of the program, whether or not a step of it raises.
DailySummary(t) ==
  /\ lpc[t] = "summary"
  /\ \E raised \in BOOLEAN : JobOver(t, raised)
  /\ UNCHANGED <<running, scheduler_thread, jobs, nreg, cpc, ndue, cyc,
                 dbVars, mlVars, otherVars, ncycles>>

\* get_listings_for_training: every stored listing with a positive price, with a
\* label or without one (LEFT JOIN).
PricedListings == stock + Cardinality(rows)

\* The rows of that frame prepare_training_data keeps: deal_score present and
\* within [0, 1].
UsableRows == usable + Cardinality({r \in rows : r.deal_score # NULL})

\* _run_model_retraining, lines 164-168: the query raises, or returns too few rows
\* (skip), or enough of them to train on.
RetrainFetch(t) ==
  /\ lpc[t] = "retrain"
  /\ \/ JobOver(t, TRUE)
     \/ /\ PricedListings < RETRAIN_MIN_ROWS
        /\ JobOver(t, FALSE)
     \/ /\ PricedListings >= RETRAIN_MIN_ROWS
        /\ lpc' = [lpc EXCEPT ![t] = "train"]
        /\ UNCHANGED <<jobDue, todo, hist>>
  /\ UNCHANGED <<running, scheduler_thread, jobs, nreg, cpc, ndue, cyc,
                 dbVars, mlVars, otherVars, ncycles>>

Max(S) == CHOOSE x \in S : \A y \in S : y <= x

FreshVersion ==
  1 + Max({SyntheticFit, scorer.model, scorer.scaler, scorer.feature_columns,
           artifacts.model, artifacts.scaler, artifacts.info})

\* Line 170: train_model on the stored frame, whose location column is the text
\* insert_listing stored; an exception ends the job in its except clause.
RetrainTrain(t) ==
  /\ lpc[t] = "train"
  /\ LET r == TrainModel(scorer, UsableRows, TRUE, FreshVersion)
     IN /\ scorer' = r.scorer
        /\ IF r.raised
           THEN JobOver(t, TRUE)
           ELSE /\ lpc' = [lpc EXCEPT ![t] = "save"]
                /\ UNCHANGED <<jobDue, todo, hist>>
  /\ UNCHANGED <<running, scheduler_thread, jobs, nreg, cpc, ndue, cyc,
                 dbVars, artifacts, otherVars, ncycles>>

\* Line 171: save_model, which may raise after p of its three dumps.
RetrainSave(t) ==
  /\ lpc[t] = "save"
  /\ \E p \in 0..3 :
       /\ p > 0 => scorer.model # NoModel
       /\ artifacts' = SaveTo(artifacts, scorer, p)
       /\ JobOver(t, p < 3)
  /\ UNCHANGED <<running, scheduler_thread, jobs, nreg, cpc, ndue, cyc,
                 dbVars, scorer, otherVars, ncycles>>

\* ------------------------------------------------------------ specification
InitHist ==
  [startTrace |-> [c \in Callers |-> <<>>], scored |-> {}, notified |-> {},
   stopped |-> FALSE, failed |-> {},
   inserts |-> 0, last |-> [listing |-> Listing("u1", "LS engine"), ret |-> NO_ID]]

\* The artifact files found on disk, and the scorer the scheduler is built with:
\* a fresh DealScoreModel, or one on which load_model() succeeded (main.run_monitoring).
InitialArtifacts == {Files(m, s, i) : m \in {NoFile, 1}, s \in {NoFile, 1}, i \in {NoFile, 1}}

IdleCall == [pc |-> "none"]

InitBase ==
  /\ running = FALSE
  /\ scheduler_thread = NoThread
  /\ jobs = {}
  /\ jobDue = {}
  /\ nreg = 0
  /\ cpc = [c \in Callers |-> "idle"]
  /\ lpc = [t \in Loops |-> "unborn"]
  /\ todo = [t \in Loops |-> <<>>]
  /\ cyc = [e \in Executors |-> IdleCyc]
  /\ rows = {}
  /\ seq = 0
  /\ dbLock = Free
  /\ notifications = <<>>
  /\ ncycles = 0
  /\ ndue = 0
  /\ orch = IdleOrch
  /\ hist = InitHist

InitCommon == InitBase /\ call = IdleCall

\* ---- Spec: the scheduler's life cycle under two application threads. The
\* marketplaces list nothing, so a scrape cycle is its scrape alone.
Init ==
  /\ InitCommon
  /\ artifacts = Files(NoFile, NoFile, NoFile)
  /\ scorer = Unset
  /\ notifiers = {"discord"}
  /\ stock = 0
  /\ usable = 0
  /\ market = {<<>>}

LoopStep(t) ==
  \/ LoopCheck(t)
  \/ LoopRunPending(t)
  \/ LoopStartJob(t)
  \/ LoopScrapeDone(t)
  \/ DailySummary(t)
  \/ RetrainFetch(t)

ApiStep(c) ==
  \/ StartEnter(c)
  \/ StartAlreadyRunning(c)
  \/ StartRegister(c)
  \/ StartFinish(c)
  \/ StopCall(c)
  \/ StopReturn(c)

Next ==
  \/ \E c \in Callers : ApiStep(c)
  \/ \E e \in Executors : CycleScrape(e)
  \/ \E j \in JobIds : DueTick(j)
  \/ \E t \in Loops : LoopStep(t)

Spec == Init /\ [][Next]_vars

\* ---- SpecLoop: the scheduler as main.run_monitoring drives it, from one thread,
\* with a listing on the market and the scorer either loaded from its artifacts
\* or left without any.
Main == <<"caller", 1>>

InitLoop ==
  /\ InitCommon
  /\ artifacts \in {Files(NoFile, NoFile, NoFile), Files(1, 1, 1)}
  /\ scorer = LoadModel(Unset, artifacts).scorer
  /\ notifiers = {"discord"}
  /\ stock \in {0, RETRAIN_MIN_ROWS}
  /\ usable \in {0, stock}
  /\ market = SeqsUpTo({Listing("u1", "LS engine")}, 1)

NextLoop ==
  \/ ApiStep(Main)
  \/ \E e \in {Main} \cup Loops : CycleStep(e)
  \/ \E j \in JobIds : DueTick(j)
  \/ \E t \in Loops :
       \/ LoopStep(t)
       \/ RetrainTrain(t)
       \/ RetrainSave(t)

SpecLoop == InitLoop /\ [][NextLoop]_vars

\* ---- SpecCycles: scrape cycles run by the application's threads through
\* run_manual_scraping, for every state of the artifact files and every notifier
\* configuration.
InitCycles ==
  /\ InitCommon
  /\ artifacts \in InitialArtifacts
  /\ scorer \in {Unset} \cup {LoadModel(Unset, artifacts).scorer}
  /\ notifiers \in SUBSET Channels
  /\ stock = 0
  /\ usable = 0
  /\ market = Batches

NextCycles ==
  \/ \E c \in Callers :
       \/ ManualCall(c)
       \/ ManualReturn(c)
  \/ \E c \in Callers : CycleStep(c)

SpecCycles == InitCycles /\ [][NextCycles]_vars


\* ---- SpecInsert: insert_listing and update_deal_score calls, one after another.
InitInsert ==
  /\ InitCommon
  /\ artifacts = Files(NoFile, NoFile, NoFile)
  /\ scorer = Unset
  /\ notifiers = {}
  /\ stock = 0
  /\ usable = 0
  /\ market = {<<>>}

NextInsert ==
  \/ \E l \in Listings : InsertListingCall(l)
  \/ \E id \in 1..MaxInserts, sc \in Scores : UpdateDealScoreCall(id, sc)

SpecInsert == InitInsert /\ [][NextInsert]_vars

\* ---- SpecScrapeAll: one scrape_all_platforms call over the four adapters.
NextScrapeAll ==
  \/ ScrapeAllCall
  \/ AdapterTurn
  \/ ScrapeAllReturn

SpecScrapeAll == InitInsert /\ [][NextScrapeAll]_vars

\* ------------------------------------------------------- engineered features
PlatformNames == {Adapters[i] : i \in 1..Len(Adapters)}

\* A column of the engineered frame: its label, and for an indicator column of
\* _create_platform_features the platform it is named after.
Col(name, p) == [name |-> name, platform |-> p]

\* Columns create_features adds to every frame (three of them stand for all).
AlwaysColumns == {Col("log_price", ""), Col("condition_score", ""), Col("platform_reliability", "")}

\* _create_platform_features: for platform in df['platform'].unique():
\* df[f'platform_{platform}'] = ...
PlatformColumns(ps) == {Col("platform_", p) : p \in ps}

EngineeredColumns(ps) == AlwaysColumns \cup PlatformColumns(ps)

PlatformsOf(batch) == {batch[i] : i \in 1..Len(batch)}

\* prepare_training_data, lines 28-43: feature_columns is every column of the
\* engineered training frame that is not in exclude_cols.
FeatureColumnsOf(ps) == EngineeredColumns(ps)

\* df_features[self.feature_columns]: pandas raises KeyError when a label of the
\* list is not a column of the frame; fillna(0) then fills cells, not columns.
SelectColumns(have, wanted) == [raised |-> ~(wanted \subseteq have), columns |-> wanted \cap have]

\* predict_deal_scores, lines 105-114, on a scorer whose model and scaler are set.
PredictOn(feature_columns, batch, raw) ==
  LET sel == SelectColumns(EngineeredColumns(PlatformsOf(batch)), feature_columns)
  IN IF sel.raised THEN [raised |-> TRUE, scores |-> <<>>]
     ELSE [raised |-> FALSE, scores |-> PredictDealScores(raw)]

\* train_model has run on a frame in which the platforms of call.train occur.
PrepareTrainingData ==
  /\ call.pc = "args"
  /\ call' = [call EXCEPT !.pc = "trained", !.feature_columns = FeatureColumnsOf(call.train)]
  /\ UNCHANGED <<schedVars, dbVars, mlVars, notifiers, stock, market, orch, usable, cyc,
                 ncycles, hist>>

\* predict_deal_scores(df) for the listings of call.batch.
PredictCall ==
  /\ call.pc = "trained"
  /\ \E raw \in [1..Len(call.batch) -> RawScores] :
       call' = [call EXCEPT !.pc = "predicted",
                            !.ret = PredictOn(call.feature_columns, call.batch, raw)]
  /\ UNCHANGED <<schedVars, dbVars, mlVars, notifiers, stock, market, orch, usable, cyc,
                 ncycles, hist>>

\* ---- SpecPredict: a scorer trained on a frame of some platforms predicts for a
\* batch of listings of some platforms.
InitPredict ==
  /\ InitBase
  /\ artifacts = Files(1, 1, 1)
  /\ scorer = LoadModel(Unset, artifacts).scorer
  /\ notifiers = {}
  /\ stock = 0
  /\ usable = 0
  /\ market = {<<>>}
  /\ \E ps \in (SUBSET PlatformNames) \ {{}} :
       \E b \in SeqsUpTo(PlatformNames, MaxBatch) \ {<<>>} :
         call = [pc |-> "args", train |-> ps, batch |-> b, feature_columns |-> {},
                 ret |-> [raised |-> FALSE, scores |-> <<>>]]

NextPredict ==
  \/ PrepareTrainingData
  \/ PredictCall

SpecPredict == InitPredict /\ [][NextPredict]_vars

\* -------------------------------------------------------- scorer methods
\* Usable rows of the frames handed to train_model.
TrainRows == {0, MIN_TRAIN_ROWS - 1, MIN_TRAIN_ROWS}

\* The record of the last scorer call: the method, load_model's return value,
\* whether the call raised, the usable rows of a trained frame, and the scorer
\* whose attributes the last complete save_model dumped (Unset: none).
ScorerCall(op, ok, raised, n, saved) ==
  [pc |-> "scorer", op |-> op, ok |-> ok, raised |-> raised, rows |-> n, saved |-> saved]

scorerFrame == <<schedVars, dbVars, notifiers, stock, market, orch, usable, cyc, ncycles, hist>>

\* DealScoreModel(config): a scorer with nothing set.
NewScorer ==
  /\ call.pc = "scorer"
  /\ scorer' = Unset
  /\ call' = ScorerCall("new", FALSE, FALSE, 0, call.saved)
  /\ UNCHANGED <<scorerFrame, artifacts>>

LoadModelCall ==
  /\ call.pc = "scorer"
  /\ LET r == LoadModel(scorer, artifacts)
     IN /\ scorer' = r.scorer
        /\ call' = ScorerCall("load", r.ok, r.raised, 0, call.saved)
  /\ UNCHANGED <<scorerFrame, artifacts>>

TrainModelCall ==
  /\ call.pc = "scorer"
  /\ FreshVersion <= MaxFits
  /\ \E n \in TrainRows, text \in BOOLEAN :
       LET r == TrainModel(scorer, n, text, FreshVersion)
       IN /\ scorer' = r.scorer
          /\ call' = ScorerCall("train", FALSE, r.raised, n, call.saved)
  /\ UNCHANGED <<scorerFrame, artifacts>>

\* save_model: ValueError without a model, else the three dumps, p of them done
\* before an error of the file system.
SaveModelCall ==
  /\ call.pc = "scorer"
  /\ IF scorer.model = NoModel
     THEN /\ call' = ScorerCall("save", FALSE, TRUE, 0, call.saved)
          /\ UNCHANGED artifacts
     ELSE \E p \in 0..3 :
            /\ artifacts' = SaveTo(artifacts, scorer, p)
            /\ call' = ScorerCall("save", FALSE, p < 3, 0,
                                  IF p = 3 THEN scorer ELSE IF p = 0 THEN call.saved ELSE Unset)
  /\ UNCHANGED <<scorerFrame, scorer>>

\* predict_deal_scores: ValueError without a model or a scaler (line 102), KeyError
\* at line 107 without feature_columns or for a batch that lacks one of them, else
\* the scores; no attribute of the scorer is assigned.
PredictDealScoresCall ==
  /\ call.pc = "scorer"
  /\ \E raised \in BOOLEAN :
       /\ ~CanPredict(scorer) => raised
       /\ call' = ScorerCall("predict", FALSE, raised, 0, call.saved)
  /\ UNCHANGED <<scorerFrame, scorer, artifacts>>

\* ---- SpecScorer: the methods of one DealScoreModel called in any order, over
\* every state of the artifact files.
InitScorer ==
  /\ InitBase
  /\ artifacts \in InitialArtifacts
  /\ scorer = Unset
  /\ notifiers = {}
  /\ stock = 0
  /\ usable = 0
  /\ market = {<<>>}
  /\ call = ScorerCall("new", FALSE, FALSE, 0, Unset)

NextScorer ==
  \/ NewScorer
  \/ LoadModelCall
  \/ TrainModelCall
  \/ SaveModelCall
  \/ PredictDealScoresCall

SpecScorer == InitScorer /\ [][NextScorer]_vars

\* ------------------------------------------------------ relevance filter
\* Texts are sequences of characters. The title of a listing whose only engine
\* term is the "motor" of "boat motor":
BoatMotor == <<"b", "o", "a", "t", " ", "m", "o", "t", "o", "r">>

NeedsWorkKeyword == <<"n", "e", "e", "d", "s", " ", "w", "o", "r", "k">>

NeedsWork == <<"L", "S", " ", "e", "n", "g", "i", "n", "e", ",", " ", "n", "e", "e", "d", "s", " ", "w", "o", "r", "k">>

\* Titles the marketplaces show: boat motor, Boat Motor, motorcycle, LS engine,
\* LQ4 ENGINE, cylinder heads, lawn mower, short block, and the
\* LS engine, needs work of NeedsWork.
ItemTitles ==
  { NeedsWork,
    <<"b", "o", "a", "t", " ", "m", "o", "t", "o", "r">>,
    <<"B", "o", "a", "t", " ", "M", "o", "t", "o", "r">>,
    <<"m", "o", "t", "o", "r", "c", "y", "c", "l", "e">>,
    <<"L", "S", " ", "e", "n", "g", "i", "n", "e">>,
    <<"L", "Q", "4", " ", "E", "N", "G", "I", "N", "E">>,
    <<"c", "y", "l", "i", "n", "d", "e", "r", " ", "h", "e", "a", "d", "s">>,
    <<"l", "a", "w", "n", " ", "m", "o", "w", "e", "r">>,
    <<"s", "h", "o", "r", "t", " ", "b", "l", "o", "c", "k">> }

\* Descriptions of a listing page: none, marine use, rebuilt.
ItemDescriptions ==
  { <<>>,
    <<"m", "a", "r", "i", "n", "e", " ", "u", "s", "e">>,
    <<"r", "e", "b", "u", "i", "l", "t">> }

\* is_relevant_listing, line 90.
engine_terms ==
  { <<"e", "n", "g", "i", "n", "e">>,
    <<"m", "o", "t", "o", "r">>,
    <<"b", "l", "o", "c", "k">>,
    <<"h", "e", "a", "d">>,
    <<"i", "n", "t", "a", "k", "e">>,
    <<"c", "r", "a", "n", "k">>,
    <<"p", "i", "s", "t", "o", "n">>,
    <<"l", "o", "n", "g", " ", "b", "l", "o", "c", "k">>,
    <<"s", "h", "o", "r", "t", " ", "b", "l", "o", "c", "k">> }

\* is_relevant_listing, line 94.
exclude_terms ==
  { <<"b", "o", "a", "t">>,
    <<"m", "a", "r", "i", "n", "e">>,
    <<"m", "o", "t", "o", "r", "c", "y", "c", "l", "e">>,
    <<"l", "a", "w", "n">>,
    <<"g", "e", "n", "e", "r", "a", "t", "o", "r">>,
    <<"p", "u", "m", "p">>,
    <<"c", "o", "m", "p", "r", "e", "s", "s", "o", "r">> }

\* str.lower(), over the capitals that occur in the titles.
LowerChar(c) ==
  CASE c = "B" -> "b" [] c = "M" -> "m" [] c = "L" -> "l" [] c = "S" -> "s"
    [] c = "Q" -> "q" [] c = "E" -> "e" [] c = "N" -> "n" [] c = "G" -> "g"
    [] c = "I" -> "i" [] OTHER -> c

Lower(text) == [i \in 1..Len(text) |-> LowerChar(text[i])]

\* term in text
Contains(text, term) ==
  \E i \in 1..(Len(text) - Len(term) + 1) : SubSeq(text, i, i + Len(term) - 1) = term

\* f"{title} {description}".lower()
ListingText(title, description) == Lower(title \o <<" ">> \o description)

\* is_relevant_listing with the exclusion test of lines 93-98 left out.
RelevantByEngineTermOnly(title, description) ==
  \E term \in engine_terms : Contains(ListingText(title, description), term)

IsRelevantListing(title, description) ==
  LET text == ListingText(title, description)
      has_engine_term == \E term \in engine_terms : Contains(text, term)
      has_exclude_term == \E term \in exclude_terms : Contains(text, term)
  IN has_engine_term /\ ~has_exclude_term

\* What _parse_listing_item makes of an element of a result page: None, or a
\* listing. The Facebook and OfferUp parsers set description to "".
\* Config.GOOD_CONDITION_KEYWORDS
GOOD_CONDITION_KEYWORDS ==
  { <<"r", "e", "b", "u", "i", "l", "t">>,
    <<"r", "e", "m", "a", "n", "u", "f", "a", "c", "t", "u", "r", "e", "d">>,
    <<"n", "e", "w">>,
    <<"e", "x", "c", "e", "l", "l", "e", "n", "t">>,
    <<"p", "e", "r", "f", "e", "c", "t">>,
    <<"l", "o", "w", " ", "m", "i", "l", "e", "s">>,
    <<"f", "r", "e", "s", "h", " ", "r", "e", "b", "u", "i", "l", "d">>,
    <<"z", "e", "r", "o", " ", "m", "i", "l", "e", "s">>,
    <<"u", "n", "u", "s", "e", "d">> }

\* Config.BAD_CONDITION_KEYWORDS
BAD_CONDITION_KEYWORDS ==
  { <<"s", "p", "u", "n", " ", "b", "e", "a", "r", "i", "n", "g">>,
    <<"c", "r", "a", "c", "k", "e", "d">>,
    <<"d", "a", "m", "a", "g", "e", "d">>,
    <<"b", "l", "o", "w", "n">>,
    <<"s", "e", "i", "z", "e", "d">>,
    <<"n", "e", "e", "d", "s", " ", "w", "o", "r", "k">>,
    <<"f", "o", "r", " ", "p", "a", "r", "t", "s">>,
    <<"r", "e", "b", "u", "i", "l", "d", " ", "n", "e", "e", "d", "e", "d">>,
    <<"b", "a", "d">> }

Tagged(tag, keyword) == [tag |-> tag, keyword |-> keyword]

\* extract_condition_keywords: nothing for an empty text, else f"good_{keyword}"
\* for each good keyword and f"bad_{keyword}" for each bad keyword whose lower
\* case occurs in text.lower().
ExtractConditionKeywords(text) ==
  IF text = <<>> THEN {}
  ELSE {Tagged("good_", k) : k \in {g \in GOOD_CONDITION_KEYWORDS : Contains(Lower(text), Lower(g))}}
       \cup
       {Tagged("bad_", k) : k \in {b \in BAD_CONDITION_KEYWORDS : Contains(Lower(text), Lower(b))}}

\* The text each parser hands to extract_condition_keywords: eBay the title and
\* the condition text it also stores as description (ebay.py 119), Craigslist the
\* description of the listing page (craigslist.py 142), Facebook and OfferUp the
\* title (facebook.py 113, offerup.py 100).
ConditionText(adapter, title, description) ==
  IF adapter = "ebay" THEN title \o <<" ">> \o description
  ELSE IF adapter = "craigslist" THEN description
  ELSE title

\* What _parse_listing_item makes of an element of a result page: None, or a
\* listing. The Facebook and OfferUp parsers set description to "".
NoListing == [parsed |-> FALSE, title |-> <<>>, description |-> <<>>, condition_keywords |-> {}]

DescriptionsOf(adapter) ==
  IF adapter \in {"facebook", "offerup"} THEN {<<>>} ELSE ItemDescriptions

ParseListing(adapter, title, description) ==
  [parsed |-> TRUE, title |-> title, description |-> description,
   condition_keywords |-> ExtractConditionKeywords(ConditionText(adapter, title, description))]

ParsedItems(adapter) ==
  {NoListing} \cup {ParseListing(adapter, ti, d) : ti \in ItemTitles, d \in DescriptionsOf(adapter)}

\* A result page is given by the number of elements it shows, or by RequestFails
\* when its request raises (timeout, HTTP error, block response). The pages of a
\* search term are those the adapter requests: every page before the last shows
\* elements.
PageKinds == {RequestFails} \cup (0..MaxItems)

TermPages ==
  {s \in SeqsUpTo(PageKinds, MaxPages) \ {<<>>} : \A i \in 1..(Len(s) - 1) : s[i] > 0}

RECURSIVE ElementsOf(_)
ElementsOf(pages) ==
  IF pages = <<>> THEN 0
  ELSE (IF Head(pages) > 0 THEN Head(pages) ELSE 0) + ElementsOf(Tail(pages))

RECURSIVE ElementCount(_)
ElementCount(terms) ==
  IF terms = <<>> THEN 0 ELSE ElementsOf(Head(terms)) + ElementCount(Tail(terms))

\* The searches of one scrape_listings call: per search term its pages.
Searches == {sh \in SeqsUpTo(TermPages, MaxTerms) : ElementCount(sh) <= MaxItems}

\* _scrape_search_results returns and scrape_listings extends all_listings by its
\* listings and goes to the next search term.
EndTerm(c) ==
  [c EXCEPT !.listings = @ \o c.found, !.found = <<>>, !.t = @ + 1, !.p = 1, !.left = 0]

\* The page loop goes round, or is exhausted.
NextPage(c) ==
  IF c.p < Len(c.shape[c.t]) THEN [c EXCEPT !.p = @ + 1, !.left = 0] ELSE EndTerm(c)

\* An except clause that gives the scrape up: no later term is searched.
PageFailureEndsScrape(c) ==
  [c EXCEPT !.listings = @ \o c.found, !.found = <<>>, !.t = Len(c.shape) + 1, !.p = 1,
            !.left = 0]

\* except Exception ... break: the page loop ends with the term's listings so far.
PageFailed(c) == EndTerm(c)

\* A scrape_listings without the finally clause.
NoFinally(c) == c

\* FacebookScraper.scrape_listings, finally: if driver: driver.quit()
Finally(c) ==
  IF c.driver = "open" THEN [c EXCEPT !.driver = "quit", !.quits = @ + 1] ELSE c

AtPage(c) == c.pc = "scrape" /\ c.left = 0 /\ c.t <= Len(c.shape)

\* scrape_listings begins; the Facebook adapter creates its browser driver first,
\* and webdriver.Chrome raising leaves the method with driver = None.
AdapterStart ==
  /\ call.pc = "start"
  /\ IF call.adapter = "facebook"
     THEN \/ call' = [call EXCEPT !.pc = "raised"]
          \/ call' = [call EXCEPT !.pc = "scrape", !.driver = "open"]
     ELSE call' = [call EXCEPT !.pc = "scrape"]
  /\ UNCHANGED <<scorerFrame, mlVars>>

\* The request of a page succeeds: without elements the page loop ends, else the
\* elements are gone through.
AdapterPage ==
  /\ AtPage(call)
  /\ LET kind == call.shape[call.t][call.p]
     IN /\ kind # RequestFails
        /\ call' = IF kind = 0 THEN EndTerm(call) ELSE [call EXCEPT !.left = kind]
  /\ UNCHANGED <<scorerFrame, mlVars>>

\* The loop body of _scrape_search_results: the next element is parsed, and its
\* listing appended if it is one and is relevant.
AdapterItem ==
  /\ call.pc = "scrape"
  /\ call.left > 0
  /\ LET listing == Head(call.items)
         c == [call EXCEPT
                 !.items = Tail(@),
                 !.left = @ - 1,
                 !.found = IF listing.parsed /\
                              IsRelevantListing(listing.title, listing.description)
                           THEN Append(@, listing) ELSE @]
     IN call' = IF c.left = 0 THEN NextPage(c) ELSE c
  /\ UNCHANGED <<scorerFrame, mlVars>>

\* A request or a page raises: the except clause leaves the page loop with the
\* listings gathered so far.
AdapterPageError ==
  /\ AtPage(call)
  /\ call.shape[call.t][call.p] = RequestFails
  /\ call' = PageFailed(call)
  /\ UNCHANGED <<scorerFrame, mlVars>>

\* An exception that no except Exception clause catches (KeyboardInterrupt,
\* SystemExit) leaves the method, through the finally clause; its locals are gone.
AdapterInterrupt ==
  /\ call.pc = "scrape"
  /\ call.t <= Len(call.shape)
  /\ call' = Finally([call EXCEPT !.pc = "interrupted", !.items = <<>>, !.found = <<>>,
                                  !.listings = <<>>, !.t = 1, !.p = 1, !.left = 0])
  /\ UNCHANGED <<scorerFrame, mlVars>>

\* scrape_listings returns all_listings.
AdapterScrapeReturn ==
  /\ call.pc = "scrape"
  /\ call.t > Len(call.shape)
  /\ call' = Finally([call EXCEPT !.pc = "returned"])
  /\ UNCHANGED <<scorerFrame, mlVars>>

\* ---- SpecAdapter: one scrape_listings call of one adapter over the elements
\* its result pages hold.
InitAdapter ==
  /\ InitBase
  /\ artifacts = Files(NoFile, NoFile, NoFile)
  /\ scorer = Unset
  /\ notifiers = {}
  /\ stock = 0
  /\ usable = 0
  /\ market = {<<>>}
  /\ \E adapter \in PlatformNames :
       \E shape \in Searches :
         \E items \in [1..ElementCount(shape) -> ParsedItems(adapter)] :
           call = [pc |-> "start", adapter |-> adapter, shape |-> shape, input |-> items,
                   items |-> items, t |-> 1, p |-> 1, left |-> 0, found |-> <<>>,
                   listings |-> <<>>, driver |-> "none", quits |-> 0]

NextAdapter ==
  \/ AdapterStart
  \/ AdapterPage
  \/ AdapterItem
  \/ AdapterPageError
  \/ AdapterInterrupt
  \/ AdapterScrapeReturn

SpecAdapter == InitAdapter /\ [][NextAdapter]_vars

\* ------------------------------------------------------- create_features
\* pd.Timestamp.now() that counts its reads into the time it returns.
TimestampCounts(clock, reads) == clock + reads

\* pd.Timestamp.now(), in hours: the wall clock, whatever was read before.
TimestampNow(clock, reads) == clock

FeatureTitles == {NeedsWork, BoatMotor}

\* A raw frame: with or without a scraped_at column (frames read from the
\* database have it, frames built from scraped listings do not).
RawRows(has_column) ==
  [platform : PlatformNames, title : FeatureTitles,
   scraped_at : IF has_column THEN 0..MaxClock ELSE {NULL}]

RawFrames ==
  {[scraped_at_column |-> h, rows |-> r] :
     h \in BOOLEAN, r \in {<<>>}} \cup
  UNION {{[scraped_at_column |-> h, rows |-> r] : r \in SeqsUpTo(RawRows(h), MaxBatch) \ {<<>>}} :
           h \in BOOLEAN}

\* _create_platform_features: platform_scores, in tenths
PlatformReliability(platform) ==
  CASE platform = "ebay" -> 8 [] platform = "craigslist" -> 6
    [] platform = "facebook" -> 7 [] platform = "offerup" -> 6 [] OTHER -> 5

\* create_features on a copy of the frame: per row the engineered columns (a text
\* length, a text flag, the platform indicators of the platforms in the frame, the
\* platform score, and the temporal columns, which read the clock twice: for a
\* missing scraped_at column and for hours_since_scraped).
CreateFeatures(frame, clock, reads) ==
  LET first == TimestampNow(clock, reads)
      now == TimestampNow(clock, reads + 1)
      platforms == {frame.rows[i].platform : i \in 1..Len(frame.rows)}
      scraped(r) == IF frame.scraped_at_column THEN r.scraped_at ELSE first
  IN [i \in 1..Len(frame.rows) |->
        LET r == frame.rows[i]
        IN [platform |-> r.platform,
            title |-> r.title,
            title_length |-> Len(r.title),
            needs_work |-> Contains(Lower(r.title \o <<" ">>), Lower(NeedsWorkKeyword)),
            platform_ |-> [q \in platforms |-> IF r.platform = q THEN 1 ELSE 0],
            platform_reliability |-> PlatformReliability(r.platform),
            scraped_at |-> scraped(r),
            hours_since_scraped |-> now - scraped(r)]]

\* engineer.create_features(frame): the frame handed in is left as it is.
CreateFeaturesCall ==
  /\ call.pc = "features"
  /\ call.done < 2
  /\ LET out == CreateFeatures(call.frame, call.clock, call.reads)
     IN call' = [call EXCEPT !.done = @ + 1, !.reads = @ + 2,
                             !.out = Append(@, out), !.at = Append(@, call.clock)]
  /\ UNCHANGED <<scorerFrame, mlVars>>

\* An hour passes.
ClockTick ==
  /\ call.pc = "features"
  /\ call.done < 2
  /\ call.clock < MaxClock
  /\ call' = [call EXCEPT !.clock = @ + 1]
  /\ UNCHANGED <<scorerFrame, mlVars>>

\* ---- SpecFeatures: create_features called twice on one frame.
InitFeatures ==
  /\ InitBase
  /\ artifacts = Files(NoFile, NoFile, NoFile)
  /\ scorer = Unset
  /\ notifiers = {}
  /\ stock = 0
  /\ usable = 0
  /\ market = {<<>>}
  /\ \E frame \in RawFrames :
       call = [pc |-> "features", frame |-> frame, clock |-> 0, reads |-> 0, done |-> 0,
               out |-> <<>>, at |-> <<>>]

NextFeatures ==
  \/ CreateFeaturesCall
  \/ ClockTick

SpecFeatures == InitFeatures /\ [][NextFeatures]_vars

\* ------------------------------------------------------ synthetic labels
\* Rows of an engineered frame, by the columns _create_synthetic_labels reads.
\* Prices in dollars, distances in miles.
LabelRows ==
  [platform : {"ebay", "craigslist"}, price : {500, 1000, 1500},
   good_condition_count : {0, 2}, bad_condition_count : {0, 1, 6},
   lq4_priority_score : {0, 9}, estimated_distance : {0, 500}]

\* The frames labelled: ebay listings at three prices and craigslist listings at
\* one, each with two good keywords, one bad keyword or six bad keywords.
LabelFrames ==
  SeqsUpTo({r \in LabelRows :
              /\ r.good_condition_count + r.bad_condition_count \in {1, 2, 6}
              /\ r.good_condition_count = 0 \/ r.bad_condition_count = 0
              /\ r.platform = "craigslist" => r.price = 1000},
           MaxLabelRows)

\* _create_condition_features with the counts exchanged.
ConditionScoreInverted(r) == r.bad_condition_count - r.good_condition_count

\* _create_condition_features, line 63
ConditionScore(r) == r.good_condition_count - r.bad_condition_count

RECURSIVE Factorial(_)
Factorial(n) == IF n <= 1 THEN 1 ELSE n * Factorial(n - 1)

MinOf(S) == CHOOSE x \in S : \A y \in S : x <= y

\* Scores are counted in units that make every term of a label a whole number:
\* 1.0 is LabelOne(frame) units, with the range of the condition scores and the
\* largest priority score of the frame as factors.
RankUnits == 2 * Factorial(MaxLabelRows)

ConditionRange(frame) ==
  LET cs == {ConditionScore(frame[i]) : i \in 1..Len(frame)} IN Max(cs) - MinOf(cs)

PriorityMax(frame) == Max({frame[i].lq4_priority_score : i \in 1..Len(frame)})

NormUnits(frame) ==
  (IF ConditionRange(frame) = 0 THEN 1 ELSE ConditionRange(frame)) *
  (IF PriorityMax(frame) = 0 THEN 1 ELSE PriorityMax(frame))

Milli(frame) == RankUnits * NormUnits(frame)

LabelOne(frame) == 1000 * Milli(frame)

SamePlatform(frame, i) == {j \in 1..Len(frame) : frame[j].platform = frame[i].platform}

\* Ranks counted from the highest price down.
RankDescending(frame, i) ==
  LET P == SamePlatform(frame, i)
  IN 2 * Cardinality({j \in P : frame[j].price > frame[i].price})
     + Cardinality({j \in P : frame[j].price = frame[i].price}) + 1

\* prices.rank(): the average of the positions of the price among the platform's
\* prices in ascending order, doubled.
Rank2(frame, i) ==
  LET P == SamePlatform(frame, i)
  IN 2 * Cardinality({j \in P : frame[j].price < frame[i].price})
     + Cardinality({j \in P : frame[j].price = frame[i].price}) + 1

\* Lines 153-159: 0.3 * (1 - prices.rank(pct=True)) for a platform with more than
\* one price and a positive standard deviation, nothing otherwise.
PriceTerm(frame, i) ==
  LET P == SamePlatform(frame, i)
      n == Cardinality(P)
  IN IF n > 1 /\ Cardinality({frame[j].price : j \in P}) > 1
     THEN (300 * Milli(frame) * (2 * n - Rank2(frame, i))) \div (2 * n)
     ELSE 0

\* Lines 161-164: 0.2 * (score - min) / (max - min + 1e-8); the 1e-8 makes a
\* positive quotient smaller by less than a unit, counted as one unit.
ConditionTerm(frame, i) ==
  LET cs == {ConditionScore(frame[j]) : j \in 1..Len(frame)}
      d == ConditionScore(frame[i]) - MinOf(cs)
  IN IF d = 0 THEN 0
     ELSE (200 * Milli(frame) * d) \div ConditionRange(frame) - 1

\* Lines 166-168: 0.3 * score / (max + 1e-8)
PriorityTerm(frame, i) ==
  IF frame[i].lq4_priority_score = 0 THEN 0
  ELSE (300 * Milli(frame) * frame[i].lq4_priority_score) \div PriorityMax(frame) - 1

\* Lines 170-172: np.clip(distance / 1000, 0, 0.2)
DistancePenalty(frame, i) ==
  Milli(frame) * (IF frame[i].estimated_distance > 200 THEN 200 ELSE frame[i].estimated_distance)

\* Lines 174-175: 0.1 * platform_reliability
PlatformTerm(frame, i) == 10 * Milli(frame) * PlatformReliability(frame[i].platform)

ClipLabel(frame, x) == IF x < 0 THEN 0 ELSE IF x > LabelOne(frame) THEN LabelOne(frame) ELSE x

\* _create_synthetic_labels: 0.5 plus the terms, clipped into [0, 1] (line 177).
SyntheticLabel(frame, i) ==
  ClipLabel(frame, 500 * Milli(frame) + PriceTerm(frame, i) + ConditionTerm(frame, i)
                   + PriorityTerm(frame, i) - DistancePenalty(frame, i)
                   + PlatformTerm(frame, i))

CreateSyntheticLabels ==
  /\ call.pc = "frame"
  /\ call' = [call EXCEPT
               !.pc = "labelled",
               !.price_term = [i \in 1..Len(call.frame) |-> PriceTerm(call.frame, i)],
               !.deal_score = [i \in 1..Len(call.frame) |-> SyntheticLabel(call.frame, i)]]
  /\ UNCHANGED <<scorerFrame, mlVars>>

\* ---- SpecLabels: _create_synthetic_labels on a frame without deal_score.
InitLabels ==
  /\ InitBase
  /\ artifacts = Files(NoFile, NoFile, NoFile)
  /\ scorer = Unset
  /\ notifiers = {}
  /\ stock = 0
  /\ usable = 0
  /\ market = {<<>>}
  /\ \E frame \in LabelFrames :
       call = [pc |-> "frame", frame |-> frame, price_term |-> <<>>, deal_score |-> <<>>]

NextLabels == CreateSyntheticLabels

SpecLabels == InitLabels /\ [][NextLabels]_vars

\* ================================================================ properties
JobPcs == {"scrape", "summary", "retrain", "train", "save"}

LoopLive(t) == lpc[t] \notin {"unborn", "dead"} /\ (lpc[t] = "check" => running)

InJob(e) == cyc[e].pc \notin {"none", "done"} \/ (e \in Loops /\ lpc[e] \in JobPcs)

\* C5: a start_scheduler call on a stopped scheduler creates the loop thread only
\* after it has registered the jobs and then invoked scrape_all_platforms exactly
\* once in the calling thread; it invokes it only after registering, and while it
\* does no loop thread of this call exists.
C5_StartScrapesOnceBeforeLoop ==
  [][\A c \in Callers :
       /\ (cpc[c] = "start_scrape" /\ cpc'[c] = "idle") =>
            /\ hist.startTrace[c] = <<"register", "scrape">>
            /\ \E t \in Loops : /\ lpc[t] = "unborn"
                                /\ lpc'[t] = "check"
                                /\ scheduler_thread' = t[2]
       /\ (cpc[c] = "start_scrape" /\ hist'.startTrace[c] # hist.startTrace[c]
             /\ cpc'[c] = "start_scrape") =>
            /\ hist.startTrace[c] = <<"register">>
            /\ hist'.startTrace[c] = <<"register", "scrape">>
            /\ lpc' = lpc]_vars

\* C5 witness: a start call on a stopped scheduler has registered the jobs and run
\* its scrape, and no loop thread has been created yet.
C5_Witness ==
  \E c \in Callers :
    /\ cpc[c] = "start_scrape"
    /\ cyc[c].pc = "done"
    /\ hist.startTrace[c] = <<"register", "scrape">>
    /\ jobs # {}
    /\ \A t \in Loops : lpc[t] = "unborn"

\* C6: a start_scheduler call that finds the scheduler running returns and leaves
\* the registered jobs, the running flag, the thread reference, every loop thread
\* and every scrape cycle as they were.
C6_StartWhileRunningIsNoop ==
  [][\A c \in Callers :
       (cpc[c] = "start" /\ running /\ cpc'[c] # "start") =>
         /\ cpc'[c] = "idle"
         /\ UNCHANGED <<running, scheduler_thread, jobs, jobDue, nreg, lpc, todo, cyc,
                        ncycles, rows, notifications>>]_vars

\* C6 witness: start_scheduler has been entered while the scheduler runs with its
\* loop thread alive and its jobs registered.
C6_Witness ==
  \E c \in Callers :
    /\ cpc[c] = "start"
    /\ running
    /\ scheduler_thread # NoThread
    /\ jobs # {}
    /\ \E t \in Loops : LoopLive(t)

\* C7: at most one background loop task is live, at most one job execution is in
\* progress, and no job is being executed by two loop tasks at once.
C7_SingleLoopSingleJob ==
  /\ Cardinality({t \in Loops : LoopLive(t)}) <= 1
  /\ Cardinality({e \in Executors : InJob(e)}) <= 1
  /\ \A t, u \in Loops :
       (t # u /\ lpc[t] \in JobPcs /\ lpc[u] \in JobPcs) => Head(todo[t]) # Head(todo[u])

\* C9: once stop_scheduler has returned (no start_scheduler call being under way
\* or made since) and running is false, no loop thread begins a job.
C9_NoJobBeginsAfterStop ==
  [][\A t \in Loops :
       (hist.stopped /\ ~running /\ lpc[t] = "run") => lpc'[t] = "run"]_vars

\* C8: a loop thread ends only by finding running false at its while test; a job
\* that is over, whether or not a step of it raised, leaves running as it was and
\* the thread in the loop, at the next runnable job or at its sleep.
C8_JobExceptionKeepsLoopAlive ==
  [][\A t \in Loops :
       /\ (lpc[t] # "dead" /\ lpc'[t] = "dead") => (lpc[t] = "check" /\ ~running)
       /\ (lpc[t] \in JobPcs /\ lpc'[t] # lpc[t]) =>
            /\ running' = running
            /\ lpc'[t] \in {"check", "run", "train", "save"}
       /\ (cyc[t].outcome # "error" /\ cyc'[t].outcome = "error") =>
            /\ cyc'[t].pc = "done"
            /\ lpc'[t] = lpc[t]]_vars

\* C8 witness: a loop thread one of whose jobs raised is executing a later job,
\* with running still true.
C8_Witness ==
  \E t \in Loops : t \in hist.failed /\ lpc[t] \in JobPcs /\ running


UniqueUrls(rs) == \A r1, r2 \in rs : r1.url = r2.url => r1 = r2

\* C1: an insert_listing call whose url is stored changes no row and returns the
\* falsy NO_ID; one whose url is not stored adds exactly one row, holding the
\* listing under a new id, and returns that id; no two stored rows share a url.
C1_InsertDedup ==
  [][hist'.inserts = hist.inserts + 1 =>
       LET l   == hist'.last.listing
           ret == hist'.last.ret
       IN /\ IF UrlStored(rows, l.url)
             THEN rows' = rows /\ ret = NO_ID
             ELSE /\ ret # NO_ID
                  /\ \A q \in rows : q.id # ret
                  /\ \E r \in rows' :
                       /\ r \notin rows
                       /\ rows' = rows \cup {r}
                       /\ r.url = l.url /\ r.title = l.title /\ r.id = ret
          /\ UniqueUrls(rows')]_vars

\* C1 witness: the last insert_listing call carried a stored url with another
\* title, returned no id, and the stored row still holds its title and its score.
C1_Witness ==
  /\ hist.inserts >= 2
  /\ hist.last.ret = NO_ID
  /\ Cardinality(rows) = 2
  /\ \E r \in rows : /\ r.url = hist.last.listing.url
                     /\ r.title # hist.last.listing.title
                     /\ r.deal_score # NULL

Tried(e, u) == \E i \in 1..Len(cyc[e].res) : cyc[e].batch[i].url = u

Got(e, u) ==
  \E i \in 1..Len(cyc[e].res) : cyc[e].batch[i].url = u /\ cyc[e].res[i] # NO_ID

InsertedIn(u, ids) == \E r \in rows : r.url = u /\ r.cycle \in ids

\* C2: no two rows share a url, and when two cycles running at once have both
\* called insert_listing for a url that neither found stored from before, exactly
\* one of them received an id and holds the listing among its new listings.
C2_ConcurrentInsertOnce ==
  /\ UniqueUrls(rows)
  /\ \A e1, e2 \in Executors : \A u \in Urls :
       (e1 # e2 /\ Tried(e1, u) /\ Tried(e2, u)
          /\ InsertedIn(u, {cyc[e1].id, cyc[e2].id})) =>
         /\ Got(e1, u) # Got(e2, u)
         /\ (\E n \in 1..Len(cyc[e1].new) : cyc[e1].new[n].url = u) = Got(e1, u)
         /\ (\E n \in 1..Len(cyc[e2].new) : cyc[e2].new[n].url = u) = Got(e2, u)

\* C2 witness: two cycles in progress at once have both inserted the same url,
\* the second while the first was between its INSERT and the end of its cycle.
C2_Witness ==
  \E e1, e2 \in Executors : \E u \in Urls :
    /\ e1 # e2
    /\ cyc[e1].pc \notin {"none", "done"} /\ cyc[e2].pc \notin {"none", "done"}
    /\ Got(e1, u) /\ Tried(e2, u) /\ ~Got(e2, u)
    /\ InsertedIn(u, {cyc[e1].id})

\* The listings whose insert returned an id, in scrape order.
Accepted(c) ==
  LET idx == SelectIdx(c.res, Len(c.res))
  IN [n \in 1..Len(idx) |-> [id |-> c.res[idx[n]], url |-> c.batch[idx[n]].url]]

\* C3: the new listings of a cycle, which are what it hands to the scoring, are
\* the scraped listings whose insert returned an id, in scrape order; and a cycle
\* updates the score of, and notifies about, only rows that it inserted itself.
C3_OnlyNewListingsScored ==
  /\ \A e \in Executors :
       cyc[e].pc \in {"insert", "score", "predict", "update", "notify", "done"} =>
         cyc[e].new = Accepted(cyc[e])
  /\ \A p \in hist.scored \cup hist.notified :
       \E r \in rows : r.id = p[2] /\ r.cycle = p[1]

\* C3 witness: a cycle enters the scoring with one of its two scraped listings,
\* the other having been dropped as already stored.
C3_Witness ==
  \E e \in Executors :
    /\ cyc[e].pc = "score"
    /\ Len(cyc[e].batch) = 2
    /\ Len(cyc[e].new) = 1
    /\ cyc[e].res[1] = NO_ID

\* C10: a cycle that found no model and could load none has ended by returning,
\* its new listings are stored with a NULL deal_score and not hot, it updated no
\* score and sent or logged no notification; and the scoring steps are reached
\* only with a model in the scorer.
C10_NoModelSkipsScoring ==
  \A e \in Executors :
    /\ cyc[e].outcome = "no-model" =>
         /\ cyc[e].pc = "done"
         /\ cyc[e].new # <<>>
         /\ \A n \in 1..Len(cyc[e].new) :
              /\ \E r \in rows : /\ r.id = cyc[e].new[n].id
                                 /\ r.deal_score = NULL
                                 /\ r.is_hot_deal = FALSE
              /\ <<cyc[e].id, cyc[e].new[n].id>> \notin hist.scored \cup hist.notified
              /\ \A m \in 1..Len(notifications) :
                   notifications[m].listing_id # cyc[e].new[n].id
    /\ cyc[e].pc \in {"predict", "update", "notify"} => scorer.model # NoModel

\* C10 witness: with a channel configured, a cycle with two new listings has
\* ended because no model was available.
C10_Witness ==
  \E e \in Executors :
    /\ cyc[e].pc = "done"
    /\ cyc[e].outcome = "no-model"
    /\ Len(cyc[e].new) = 2
    /\ notifiers # {}

RECURSIVE Returned(_)
\* The concatenation of the lists of the adapters that did not raise.
Returned(got) ==
  IF got = <<>> THEN <<>>
  ELSE IF Head(got).raised THEN Returned(Tail(got))
       ELSE Head(got).listings \o Returned(Tail(got))

\* C4: scrape_all_platforms never ends by raising; it calls the adapters in
\* registry order, each once, and what it returns is the concatenation of the
\* lists of those that did not raise.
C4_AdaptersIsolated ==
  /\ orch.pc # "raised"
  /\ orch.pc = "loop" => orch.calls = SubSeq(Adapters, 1, orch.idx - 1)
  /\ orch.pc = "returned" =>
       /\ orch.calls = Adapters
       /\ orch.all_listings = Returned(orch.got)

\* C4 witness: the call has returned the listings of the first and the last
\* adapter although the two between them raised.
C4_Witness ==
  /\ orch.pc = "returned"
  /\ orch.got[2].raised /\ orch.got[3].raised
  /\ ~orch.got[1].raised /\ ~orch.got[4].raised
  /\ Len(orch.all_listings) = 2

HotRowsOf(cid) == {r \in rows : r.cycle = cid /\ r.is_hot_deal}

\* C11: a stored row that has a deal_score is hot exactly when that score is at
\* least HOT_DEAL_THRESHOLD; alerts go only to listings stored as hot; and when a
\* cycle with a channel configured is over, every listing it stored as hot has had
\* its alert dispatched.
C11_HotIffThresholdAndAlerted ==
  /\ \A r \in rows : r.deal_score # NULL => (r.is_hot_deal <=> r.deal_score >= HOT_DEAL_THRESHOLD)
  /\ \A r \in rows : r.deal_score = NULL => ~r.is_hot_deal
  /\ \A p \in hist.notified : \E r \in HotRowsOf(p[1]) : r.id = p[2]
  /\ \A e \in Executors :
       (cyc[e].pc = "done" /\ notifiers # {}) =>
         \A r \in HotRowsOf(cyc[e].id) : <<cyc[e].id, r.id>> \in hist.notified

\* The records the step appends to the notification log.
Appended == SubSeq(notifications', Len(notifications) + 1, Len(notifications'))

\* C12: with several channels configured, the alert step for a hot deal writes,
\* for every channel whose own send returns and whose own log write succeeds,
\* exactly one record, with success true exactly when the send returned true,
\* whatever happens on the other channels; and the cycle goes on to its next hot
\* deal.
C12_ChannelFailureIsolated ==
  [][\A e \in Executors :
       (cyc[e].pc = "notify" /\ cyc'[e] # cyc[e] /\ Cardinality(notifiers) >= 2) =>
         LET c == cyc[e] IN
           /\ \A ch \in notifiers :
                cyc'[e].out[ch] \in {"sent", "failed"} =>
                  \E m \in 1..Len(Appended) :
                    /\ Appended[m] = [listing_id |-> c.hot[c.k].id, notification_type |-> ch,
                                      success |-> cyc'[e].out[ch] = "sent"]
                    /\ \A n \in 1..Len(Appended) :
                         (n # m) => Appended[n].notification_type # ch
           /\ c.k < Len(c.hot) => (cyc'[e].pc = "notify" /\ cyc'[e].k = c.k + 1)]_vars

\* The channel's log_notification call of the step was made and returned: the
\* channel is configured, its send returned, its log write succeeded, and no
\* channel before it raised; out is what each channel did with the alert.
Logged(ch, out) ==
  /\ ch \in notifiers
  /\ out[ch] \in {"sent", "failed"}
  /\ (ch = "email" /\ "discord" \in notifiers) => out["discord"] \in {"sent", "failed"}

\* C13: every step leaves the records of the notification log in place and
\* unchanged; only an alert step adds records, and it adds exactly one for each
\* log_notification call that it made, holding that call's listing and channel.
C13_NotificationLogAppendOnly ==
  [][/\ Len(notifications') >= Len(notifications)
     /\ SubSeq(notifications', 1, Len(notifications)) = notifications
     /\ \A m \in 1..Len(Appended) :
          \E e \in Executors :
            /\ cyc[e].pc = "notify" /\ cyc'[e] # cyc[e]
            /\ Appended[m].listing_id = cyc[e].hot[cyc[e].k].id
     /\ \A e \in Executors :
          (cyc[e].pc = "notify" /\ cyc'[e] # cyc[e]) =>
            \A ch \in Channels :
              Cardinality({m \in 1..Len(Appended) : Appended[m].notification_type = ch})
                = IF Logged(ch, cyc'[e].out) THEN 1 ELSE 0]_vars

\* C13 witness: the log holds the records of two channels for one deal and, after
\* them, a record for another deal.
C13_Witness ==
  /\ Len(notifications) >= 3
  /\ notifications[1].listing_id = notifications[2].listing_id
  /\ notifications[1].notification_type # notifications[2].notification_type
  /\ notifications[3].listing_id # notifications[1].listing_id

RowOf(id) == CHOOSE r \in rows : r.id = id

\* C14: the scores a cycle works with are one per new listing, in the order of the
\* listings; each lies in [0, 1] and is the regressor's value, or 0 when that was
\* below 0, or 1 when it was above 1; and the deal_score stored for a new listing
\* is its score (in tenths: 0..10).
C14_ScoresClipped ==
  /\ \A e \in Executors :
       cyc[e].scores # <<>> =>
         /\ Len(cyc[e].scores) = Len(cyc[e].new)
         /\ Len(cyc[e].raw) = Len(cyc[e].new)
         /\ \A i \in 1..Len(cyc[e].new) :
              /\ cyc[e].scores[i] >= 0 /\ cyc[e].scores[i] <= 10
              /\ cyc[e].raw[i] < 0 => cyc[e].scores[i] = 0
              /\ cyc[e].raw[i] > 10 => cyc[e].scores[i] = 10
              /\ (cyc[e].raw[i] >= 0 /\ cyc[e].raw[i] <= 10) => cyc[e].scores[i] = cyc[e].raw[i]
              /\ RowOf(cyc[e].new[i].id).deal_score \in {NULL, cyc[e].scores[i]}
              /\ (cyc[e].pc = "done" /\ cyc[e].outcome = "ok") =>
                   RowOf(cyc[e].new[i].id).deal_score = cyc[e].scores[i]
  /\ \A r \in rows : r.deal_score # NULL => (r.deal_score >= 0 /\ r.deal_score <= 10)

\* C14 witness: a cycle has stored the scores 0 and 1 for two listings for which
\* the regressor returned a value below 0 and a value above 1.
C14_Witness ==
  \E e \in Executors :
    /\ cyc[e].pc = "done" /\ cyc[e].outcome = "ok"
    /\ cyc[e].raw = <<0 - 2, 12>>
    /\ RowOf(cyc[e].new[1].id).deal_score = 0
    /\ RowOf(cyc[e].new[2].id).deal_score = 10

\* C15: predict_deal_scores returns a score for every listing of the batch, also
\* when the batch's engineered frame lacks a feature column recorded at training.
C15_MissingColumnScoredAsZero ==
  call.pc = "predicted" =>
    /\ ~call.ret.raised
    /\ Len(call.ret.scores) = Len(call.batch)


MissingFiles == {f \in {"model", "scaler", "info"} : artifacts[f] = NoFile}

\* C16: a load_model call made while the model file, the scaler file or the info
\* file is missing returns False and raises nothing, so its caller goes on; with
\* all three files in place it returns True.
C16_LoadMissingReturnsFalse ==
  call.pc = "scorer" /\ call.op = "load" =>
    /\ ~call.raised
    /\ call.ok = (MissingFiles = {})

\* A load that found the model file and missed the scaler file has returned.
C16_Witness ==
  /\ call.pc = "scorer" /\ call.op = "load"
  /\ MissingFiles = {"scaler"}
  /\ ~call.ok

C18_FewRowsTrainOnSynthetic ==
  call.pc = "scorer" /\ call.op = "train" /\ call.rows < MIN_TRAIN_ROWS =>
    /\ ~call.raised
    /\ scorer.model = SyntheticFit
    /\ scorer.scaler = SyntheticFit
    /\ scorer.feature_columns = SyntheticFit

\* A frame of nine usable rows has been trained on.
C18_Witness ==
  /\ call.pc = "scorer" /\ call.op = "train"
  /\ call.rows = MIN_TRAIN_ROWS - 1
  /\ scorer.model = SyntheticFit

\* C19: a retraining job trains only when at least 50 stored listings are priced
\* and labeled; with fewer it ends with the scorer and the artifact files as they
\* were; with 50 or more its train_model call yields a newly fitted model, which
\* the job goes on to save.
C19_RetrainIffFiftyLabeled ==
  [][\A t \in Loops :
       /\ lpc[t] = "retrain" /\ lpc'[t] # "retrain" /\ UsableRows < RETRAIN_MIN_ROWS =>
            lpc'[t] # "train" /\ scorer' = scorer /\ artifacts' = artifacts
       /\ lpc[t] = "train" /\ lpc'[t] # "train" /\ UsableRows >= RETRAIN_MIN_ROWS =>
            lpc'[t] = "save" /\ scorer'.model = FreshVersion]_vars

\* C20: every listing a scrape_listings call returns has, in its lower-cased title
\* and description, at least one engine-part term and no exclusion term; a listing
\* titled "boat motor" without a description is never among them.
C20_ReturnedListingsRelevant ==
  call.pc \in {"scrape", "returned"} =>
    \A i \in 1..Len(call.listings) :
      LET l == call.listings[i]
          text == Lower(l.title \o <<" ">> \o l.description)
      IN /\ l.parsed
         /\ \E term \in engine_terms : Contains(text, term)
         /\ \A term \in exclude_terms : ~Contains(text, term)
         /\ ~(Lower(l.title) = BoatMotor /\ l.description = <<>>)

\* A call whose pages showed a "Boat Motor" and another listing has returned the
\* other one alone.
C20_Witness ==
  /\ call.pc = "returned"
  /\ Len(call.input) = MaxItems
  /\ \E i \in 1..Len(call.input) :
       call.input[i].parsed /\ Lower(call.input[i].title) = BoatMotor
  /\ Len(call.listings) = 1

\* The text of a listing holds the keyword, in any case.
Occurs(keyword, l) ==
  Contains(Lower(l.title), Lower(keyword)) \/ Contains(Lower(l.description), Lower(keyword))

\* C21: every listing an adapter returns carries, tagged good_ or bad_, every
\* configured condition keyword that occurs in its title or its description; a
\* returned "LS engine, needs work" carries bad_needs work.
C21_ConditionKeywordsTagged ==
  call.pc \in {"scrape", "returned"} =>
    \A i \in 1..Len(call.listings) :
      LET l == call.listings[i]
      IN /\ \A k \in GOOD_CONDITION_KEYWORDS :
              Occurs(k, l) => Tagged("good_", k) \in l.condition_keywords
         /\ \A k \in BAD_CONDITION_KEYWORDS :
              Occurs(k, l) => Tagged("bad_", k) \in l.condition_keywords

\* C22: when the request of a page fails, the adapter's next step keeps the
\* listings of the earlier terms and of the earlier pages of the term, raises
\* nothing, and goes on with the next search term.
C22_PageFailureEndsTermOnly ==
  [][AtPage(call) /\ call.shape[call.t][call.p] = RequestFails /\ call'.pc # "interrupted" =>
       /\ call'.pc = "scrape"
       /\ call'.listings = call.listings \o call.found
       /\ call'.t = call.t + 1 /\ call'.p = 1]_vars

\* The second page of the first term failed; the call has returned the listing
\* of the first page and the listing found under the second term.
C22_Witness ==
  /\ call.pc = "returned"
  /\ call.shape = <<(<<1, RequestFails>>), (<<1>>)>>
  /\ call.listings = call.input

\* C30: a Facebook scrape_listings call that has returned, or that an exception has
\* left, has quit the driver it created exactly once; before that, and when
\* creating the driver raised, no driver has been quit.
C30_DriverQuitOnce ==
  call.pc \in {"start", "scrape", "raised", "interrupted", "returned"} =>
    /\ call.pc \in {"returned", "interrupted"} /\ call.adapter = "facebook" =>
         call.driver = "quit" /\ call.quits = 1
    /\ call.pc = "scrape" /\ call.adapter = "facebook" => call.driver = "open" /\ call.quits = 0
    /\ call.pc \in {"start", "raised"} => call.driver = "none" /\ call.quits = 0

\* An exception has left the method in the middle of the second search term.
C30_Witness ==
  /\ call.pc = "interrupted" /\ call.adapter = "facebook"
  /\ Len(call.shape) = MaxTerms
  /\ call.quits = 1

C25_LowerPriceGreaterTerm ==
  call.pc = "labelled" =>
    \A i, j \in 1..Len(call.frame) :
      /\ call.frame[i].platform = call.frame[j].platform
      /\ call.frame[i].price < call.frame[j].price
      => call.price_term[i] > call.price_term[j]

\* Three ebay listings at $500, $1000 and $1500 have been labelled.
C25_Witness ==
  /\ call.pc = "labelled"
  /\ Len(call.frame) = 3
  /\ \A i \in 1..3 : call.frame[i].platform = "ebay" /\ call.frame[i].price = 500 * i
  /\ call.price_term[1] > call.price_term[3]

\* At most half of the platform's prices are at or below the price of row i.
BelowMedian(frame, i) ==
  2 * Cardinality({j \in SamePlatform(frame, i) : frame[j].price <= frame[i].price})
    <= Cardinality(SamePlatform(frame, i))

AboveMedian(frame, i) ==
  2 * Cardinality({j \in SamePlatform(frame, i) : frame[j].price >= frame[i].price})
    <= Cardinality(SamePlatform(frame, i))

\* Row i is priced below its platform's median with two good keywords, row j is
\* priced above it with one bad keyword, and they agree in everything else.
CheaperAndBetterKept(frame, i, j) ==
  /\ frame[i].platform = frame[j].platform
  /\ frame[i].lq4_priority_score = frame[j].lq4_priority_score
  /\ frame[i].estimated_distance = frame[j].estimated_distance
  /\ BelowMedian(frame, i) /\ AboveMedian(frame, j)
  /\ frame[i].good_condition_count = 2 /\ frame[i].bad_condition_count = 0
  /\ frame[j].good_condition_count = 0 /\ frame[j].bad_condition_count = 1

\* C24 as stated: in every labelled frame the cheaper, better kept listing of such
\* a pair has the strictly higher label.
C24_CheaperBetterKeptStrictlyHigher ==
  call.pc = "labelled" =>
    \A i, j \in 1..Len(call.frame) :
      CheaperAndBetterKept(call.frame, i, j) => call.deal_score[i] > call.deal_score[j]

\* C24 amended: the cheaper, better kept listing's label is at least the other's,
\* and strictly higher unless the other's label is 1.0.
C24_CheaperBetterKeptAtLeast ==
  call.pc = "labelled" =>
    \A i, j \in 1..Len(call.frame) :
      CheaperAndBetterKept(call.frame, i, j) =>
        /\ call.deal_score[i] >= call.deal_score[j]
        /\ call.deal_score[j] < LabelOne(call.frame) => call.deal_score[i] > call.deal_score[j]

\* Such a pair has been labelled, the dearer listing below 1.0 and the cheaper
\* one at 1.0.
C24_Witness ==
  /\ call.pc = "labelled"
  /\ \E i, j \in 1..Len(call.frame) :
       /\ CheaperAndBetterKept(call.frame, i, j)
       /\ call.deal_score[j] < LabelOne(call.frame)
       /\ call.deal_score[i] = LabelOne(call.frame)

\* The three attributes come from one training run (one fit number) or are the
\* contents of the three artifact files, as one load_model assigns them.
SameRunOrLoad(sc) ==
  \/ sc.model = sc.scaler /\ sc.scaler = sc.feature_columns
  \/ sc = [model |-> artifacts.model, scaler |-> artifacts.scaler,
           feature_columns |-> artifacts.info]

\* C26: after every sequence of scorer calls, failing ones included, model, scaler
\* and feature_columns are all unset, or all set by one training run or one load.
C26_ScorerTripleConsistent ==
  call.pc = "scorer" =>
    \/ scorer = Unset
    \/ CanPredict(scorer) /\ SameRunOrLoad(scorer)

\* The scrape cycle numbered cid is over: no thread is inside it.
CycleOver(cid) == \A e \in Executors : cyc[e].id = cid => cyc[e].pc = "done"

\* C27: a stored listing whose inserting cycle is over without having updated its
\* score has a NULL deal_score, is not hot, has been scored and notified by no
\* cycle and has no notification record, whatever cycles ran since.
C27_UnscoredStaysUnscored ==
  \A r \in rows :
    (CycleOver(r.cycle) /\ <<r.cycle, r.id>> \notin hist.scored) =>
      /\ r.deal_score = NULL /\ ~r.is_hot_deal
      /\ \A p \in hist.scored \cup hist.notified : p[2] # r.id
      /\ \A n \in 1..Len(notifications) : notifications[n].listing_id # r.id

\* A later cycle scraped the url of such a listing again, scored another listing
\* and ended normally; the listing is still without a score.
C27_Witness ==
  \E r \in rows, e \in Executors :
    /\ CycleOver(r.cycle) /\ <<r.cycle, r.id>> \notin hist.scored
    /\ r.deal_score = NULL
    /\ cyc[e].pc = "done" /\ cyc[e].outcome = "ok" /\ cyc[e].id > r.cycle
    /\ \E i \in 1..Len(cyc[e].batch) : cyc[e].batch[i].url = r.url
    /\ \E p \in hist.scored : p[1] = cyc[e].id

\* No two records of the notification log name the same listing and channel.
OneRecordPerChannel(ns) ==
  \A m, n \in 1..Len(ns) :
    (ns[m].listing_id = ns[n].listing_id /\ ns[m].notification_type = ns[n].notification_type)
      => m = n

\* C28: every alert step of a cycle is for a listing no alert step was taken for
\* before, by this cycle or another, and leaves the notification log with at most
\* one record per listing and channel.
C28_OneAlertPerListingChannel ==
  [][\A e \in Executors :
       (cyc[e].pc = "notify" /\ cyc'[e] # cyc[e]) =>
         /\ \A p \in hist.notified : p[2] # cyc[e].hot[cyc[e].k].id
         /\ OneRecordPerChannel(notifications')]_vars

\* A listing has its record on both channels, written by the cycle that inserted
\* it, while a cycle begun earlier that scraped the same url is still scoring.
C28_Witness ==
  \E r \in rows, e, f \in Executors :
    /\ cyc[f].id = r.cycle /\ cyc[f].pc = "done"
    /\ \A ch \in Channels :
         \E n \in 1..Len(notifications) :
           notifications[n].listing_id = r.id /\ notifications[n].notification_type = ch
    /\ cyc[e].id < r.cycle /\ cyc[e].pc \in {"update", "notify"}
    /\ \E i \in 1..Len(cyc[e].batch) : cyc[e].batch[i].url = r.url

\* C29: when a scrape cycle is over, every listing it stored as hot has a record
\* in the notification log for every configured channel.
C29_HotListingAlertedOnEveryChannel ==
  \A e \in Executors :
    cyc[e].pc = "done" =>
      \A r \in HotRowsOf(cyc[e].id), ch \in notifiers :
        \E n \in 1..Len(notifications) :
          notifications[n].listing_id = r.id /\ notifications[n].notification_type = ch

====
